---- MODULE Spec2Model ----
(***************************************************************************)
(* Data_Generation.write_script_to_file of                                 *)
(* "AI Application/data_preparation/data_generation.py": extraction of a   *)
(* fenced block out of a text and its write to a destination file.         *)
(* Texts are sequences of one-character strings; offsets are 0-based as in *)
(* Python.                                                                 *)
(***************************************************************************)
EXTENDS Integers, Sequences, FiniteSets

VARIABLES
    script_content,   \* the raw text handed to the call
    file_name,        \* the destination path handed to the call
    fs,               \* the file system: path -> [exists, content]
    result,           \* the value returned by the last call
    start_index,      \* the local start_index when the last call returned
    l1,               \* the local l1 when the last call returned
    end_index,        \* the local end_index when the last call returned
    calls,            \* number of calls that have returned
    writes,           \* number of file writes the last call performed
    fsBefore,         \* the file system as it was when the last call began
    prevResult,       \* the value returned by the call before the last
    ttext,            \* concurrent callers: the raw text of each
    tpc,              \* concurrent callers: "ready", "opened" or "done"
    tbuf,             \* concurrent callers: the data held by the open handle
    tresult,          \* concurrent callers: the value each returned
    log               \* concurrent callers: the opens and writes, in order

seqvars == <<script_content, result, start_index, l1, end_index,
             calls, writes, fsBefore, prevResult>>
conVars == <<ttext, tpc, tbuf, tresult, log>>
vars == <<seqvars, file_name, fs, conVars>>

----------------------------------------------------------------------------
(* Bounds of the model *)

MaxTokens == 3
MaxCalls == 2
MaxConcTokens == 3

----------------------------------------------------------------------------
(* The literals of the source *)

\* The character U+0060, which a string literal of TLA+ cannot hold.
BT == "backtick"

MarkerPython == <<BT, BT, BT, "p", "y", "t", "h", "o", "n">>
MarkerAction == <<"A", "c", "t", "i", "o", "n", ":">>
MarkerBash == <<BT, BT, BT, "b", "a", "s", "h">>
MarkerMarkdown == <<BT, BT, BT, "m", "a", "r", "k", "d", "o", "w", "n">>
MarkerMakefile == <<BT, BT, BT, "m", "a", "k", "e", "f", "i", "l", "e">>
MarkerText == <<BT, BT, BT, "t", "e", "x", "t">>
Fence == <<BT, BT, BT>>

\* the seven opening markers in the order the handler tries them
Markers == <<MarkerPython, MarkerAction, MarkerBash, MarkerMarkdown,
             MarkerMakefile, MarkerText, Fence>>

ErrorMessage ==
    <<"S", "c", "r", "i", "p", "t", " ", "c", "o", "n", "t", "e", "n", "t", " ",
      "m", "u", "s", "t", " ", "b", "e", " ", "e", "n", "c", "l", "o", "s", "e",
      "d", " ", "b", "e", "t", "w", "e", "e", "n", " ", BT, BT, BT, "p", "y",
      "t", "h", "o", "n", " ", "a", "n", "d", " ", BT, BT, BT, " ", "t", "a",
      "g", "s", ".">>

----------------------------------------------------------------------------
(* Python's str operations, as the handler uses them *)

Min(a, b) == IF a < b THEN a ELSE b
Max(a, b) == IF a > b THEN a ELSE b

\* s.find(sub, start) for start >= 0: the lowest offset i >= start with
\* s[i : i + len(sub)] == sub, or -1.
RECURSIVE Find(_, _, _)
Find(s, sub, start) ==
    IF start + Len(sub) > Len(s) THEN -1
    ELSE IF s[start + 1] = sub[1] /\ SubSeq(s, start + 1, start + Len(sub)) = sub
         THEN start
    ELSE Find(s, sub, start + 1)

\* the highest offset i >= start with s[i : i + len(sub)] == sub, or -1
RECURSIVE FindLast(_, _, _)
FindLast(s, sub, start) ==
    LET i == Find(s, sub, start)
    IN  IF i = -1 THEN -1
        ELSE IF Find(s, sub, i + 1) = -1 THEN i
        ELSE FindLast(s, sub, i + 1)

\* s[a:b]: a negative index counts from the end, both are clipped to the text.
PyIndex(s, i) == IF i < 0 THEN Max(i + Len(s), 0) ELSE Min(i, Len(s))
Slice(s, a, b) == SubSeq(s, PyIndex(s, a) + 1, PyIndex(s, b))

\* str.strip() with no argument removes whitespace at both ends.
Whitespace == {" ", "\n", "\t", "\r"}

RECURSIVE LStrip(_)
LStrip(s) ==
    IF s # <<>> /\ Head(s) \in Whitespace THEN LStrip(Tail(s)) ELSE s

RECURSIVE RStrip(_)
RStrip(s) ==
    IF s # <<>> /\ s[Len(s)] \in Whitespace
    THEN RStrip(SubSeq(s, 1, Len(s) - 1)) ELSE s

Strip(s) == RStrip(LStrip(s))

----------------------------------------------------------------------------
(* The file system: open(path, "w") and file.write/close *)

Paths == {"script.py", "notes.txt"}

Absent == [exists |-> FALSE, content |-> <<>>]
OldFile == [exists |-> TRUE, content |-> <<"o", "l", "d", " ", "t", "e", "x", "t">>]

\* open(file_path, "w"): creates the file or truncates it; the handle's
\* position is 0.
OpenW(f) == [exists |-> TRUE, content |-> <<>>]

\* The buffered data reaches the file at the handle's position: it replaces
\* the bytes it covers and leaves what lies beyond them.
\* a write that leaves nothing of what the file held
WriteReplacingAll(f, pos, data) == [exists |-> TRUE, content |-> data]

WriteAt(f, pos, data) ==
    [exists |-> TRUE,
     content |-> SubSeq(f.content, 1, pos) \o data
                 \o SubSeq(f.content, pos + Len(data) + 1, Len(f.content))]

----------------------------------------------------------------------------
(* write_script_to_file, lines 54-88 *)

\* Lines 54-73: the chain of find calls; each later find runs only while
\* start_index is still -1, and l1 is set beside every find that runs.
\* a find that runs whether or not an earlier one succeeded
TryAlways(st, s, marker) ==
    [start_index |-> Find(s, marker, 0), l1 |-> Len(marker)]

Try(st, s, marker) ==
    IF st.start_index = -1
    THEN [start_index |-> Find(s, marker, 0), l1 |-> Len(marker)]
    ELSE st

\* the marker at the smallest offset, the list order deciding between equals
LeftmostOpening(s) ==
    LET found == {k \in DOMAIN Markers : Find(s, Markers[k], 0) # -1}
        at(k) == Find(s, Markers[k], 0)
    IN  IF found = {} THEN [start_index |-> -1, l1 |-> Len(Fence)]
        ELSE LET k == CHOOSE i \in found : \A j \in found :
                          at(i) < at(j) \/ (at(i) = at(j) /\ i <= j)
             IN  [start_index |-> at(k), l1 |-> Len(Markers[k])]

FindOpening(s) ==
    LET s1 == [start_index |-> Find(s, MarkerPython, 0), l1 |-> Len(MarkerPython)]
        s2 == Try(s1, s, MarkerAction)
        s3 == Try(s2, s, MarkerBash)
        s4 == Try(s3, s, MarkerMarkdown)
        s5 == Try(s4, s, MarkerMakefile)
        s6 == Try(s5, s, MarkerText)
    IN  Try(s6, s, Fence)

\* Lines 75-77: the closing fence is searched from start_index + l1; when
\* there is none end_index becomes len(script_content) - 1.
\* the search started at the opening marker instead of after it
FindClosingFromStart(s, st) ==
    LET e == Find(s, Fence, Max(st.start_index, 0))
    IN  IF e = -1 THEN Len(s) - 1 ELSE e

\* no fallback when there is no closing fence
FindClosingStrict(s, st) == Find(s, Fence, st.start_index + st.l1)

\* the last closing fence instead of the first
FindClosingLast(s, st) ==
    LET e == FindLast(s, Fence, st.start_index + st.l1)
    IN  IF e = -1 THEN Len(s) - 1 ELSE e

FindClosing(s, st) ==
    LET e == Find(s, Fence, st.start_index + st.l1)
    IN  IF e = -1 THEN Len(s) - 1 ELSE e

\* Line 79: the failure test.
\* the test without its start_index half
FailsOnClosingOnly(st, e) == e = -1

Fails(st, e) == st.start_index = -1 \/ e = -1

\* Line 82: the slice and the strip.
\* the slice without the strip
ExtractUnstripped(s, st, e) == Slice(s, st.start_index + st.l1, e)

Extract(s, st, e) == Strip(Slice(s, st.start_index + st.l1, e))

\* Lines 85-87: open for writing, write, close.
\* open(file_path, "a"): the data goes after what the file holds
WriteFileAppend(f, data) == [exists |-> TRUE, content |-> f.content \o data]

WriteFile(f, data) == WriteAt(OpenW(f), 0, data)

Call ==
    /\ calls < MaxCalls
    /\ LET st == FindOpening(script_content)
           e == FindClosing(script_content, st)
       IN  /\ start_index' = st.start_index
           /\ l1' = st.l1
           /\ end_index' = e
           /\ IF Fails(st, e)
              THEN /\ result' = ErrorMessage
                   /\ fs' = fs
                   /\ writes' = 0
              ELSE LET content == Extract(script_content, st, e)
                   IN  /\ fs' = [fs EXCEPT ![file_name] = WriteFile(@, content)]
                       /\ result' = content
                       /\ writes' = 1
    /\ calls' = calls + 1
    /\ fsBefore' = fs
    /\ prevResult' = result
    /\ UNCHANGED <<script_content, file_name, conVars>>

----------------------------------------------------------------------------
(* Two callers running the handler against one destination, without a lock: *)
(* lines 54-86 up to the open are one step, the write and close of lines    *)
(* 87-88 another                                                            *)

Threads == {1, 2}

\* Lines 54-86: the extraction, and on success open(file_path, "w").
T_Begin(t) ==
    /\ tpc[t] = "ready"
    /\ LET st == FindOpening(ttext[t])
           e == FindClosing(ttext[t], st)
       IN  IF Fails(st, e)
           THEN /\ tresult' = [tresult EXCEPT ![t] = ErrorMessage]
                /\ tpc' = [tpc EXCEPT ![t] = "done"]
                /\ UNCHANGED <<fs, tbuf, log>>
           ELSE /\ tbuf' = [tbuf EXCEPT ![t] = Extract(ttext[t], st, e)]
                /\ fs' = [fs EXCEPT ![file_name] = OpenW(@)]
                /\ tpc' = [tpc EXCEPT ![t] = "opened"]
                /\ log' = Append(log, <<t, "open">>)
                /\ UNCHANGED tresult
    /\ UNCHANGED <<seqvars, file_name, ttext>>

\* Lines 87-88: the data reaches the file at the handle's position, which is
\* 0 since the open; the handle is closed and the content returned.
T_Finish(t) ==
    /\ tpc[t] = "opened"
    /\ fs' = [fs EXCEPT ![file_name] = WriteAt(@, 0, tbuf[t])]
    /\ tresult' = [tresult EXCEPT ![t] = tbuf[t]]
    /\ tpc' = [tpc EXCEPT ![t] = "done"]
    /\ log' = Append(log, <<t, "write">>)
    /\ UNCHANGED <<seqvars, file_name, ttext, tbuf>>

----------------------------------------------------------------------------
(* The inputs: texts built of at most MaxTokens fragments out of all the    *)
(* markers, and texts one fragment longer out of the core fragments         *)

Tokens == {MarkerPython, MarkerAction, MarkerBash, MarkerMarkdown,
           MarkerMakefile, MarkerText, Fence, <<"x">>, <<"\n">>}

CoreTokens == {MarkerPython, Fence, <<BT>>, <<"x">>, <<" ">>}

RECURSIVE Texts(_, _)
Texts(tokens, n) ==
    IF n = 0 THEN {<<>>}
    ELSE LET shorter == Texts(tokens, n - 1)
         IN  shorter \cup {t \o k : t \in shorter, k \in tokens}

RawTexts == Texts(Tokens, MaxTokens) \cup Texts(CoreTokens, MaxTokens + 1)

NoResult == <<"?">>

Init ==
    /\ script_content \in RawTexts
    /\ file_name = "script.py"
    /\ fs \in {[p \in Paths |-> IF p = file_name THEN f ELSE OldFile] :
                 f \in {Absent, OldFile}}
    /\ result = NoResult
    /\ start_index = -1
    /\ l1 = 0
    /\ end_index = -1
    /\ calls = 0
    /\ writes = 0
    /\ fsBefore = fs
    /\ prevResult = NoResult
    /\ ttext = [t \in Threads |-> <<>>]
    /\ tpc = [t \in Threads |-> "done"]
    /\ tbuf = [t \in Threads |-> <<>>]
    /\ tresult = [t \in Threads |-> NoResult]
    /\ log = <<>>

Next == Call

Spec == Init /\ [][Next]_vars

ConcTokens == {Fence, <<"a">>, <<"b", "c">>}

ConcTexts == Texts(ConcTokens, MaxConcTokens)

InitConc ==
    /\ ttext \in [Threads -> ConcTexts]
    /\ tpc = [t \in Threads |-> "ready"]
    /\ tbuf = [t \in Threads |-> <<>>]
    /\ tresult = [t \in Threads |-> NoResult]
    /\ log = <<>>
    /\ file_name = "script.py"
    /\ fs = [p \in Paths |-> OldFile]
    /\ script_content = <<>>
    /\ result = NoResult
    /\ start_index = -1
    /\ l1 = 0
    /\ end_index = -1
    /\ calls = 0
    /\ writes = 0
    /\ fsBefore = fs
    /\ prevResult = NoResult

NextConc == \E t \in Threads : T_Begin(t) \/ T_Finish(t)

SpecConc == InitConc /\ [][NextConc]_vars

----------------------------------------------------------------------------
(* What the statements below speak of, said without the handler's code *)

\* marker m lies in s at offset i
Occurs(m, s, i) ==
    /\ i >= 0
    /\ i + Len(m) <= Len(s)
    /\ \A k \in 1..Len(m) : s[i + k] = m[k]

OccursIn(m, s) == \E i \in 0..Len(s) : Occurs(m, s, i)

FirstOffset(m, s) ==
    CHOOSE i \in 0..Len(s) :
        Occurs(m, s, i) /\ \A j \in 0..(i - 1) : ~Occurs(m, s, j)

Present(s) == {k \in DOMAIN Markers : OccursIn(Markers[k], s)}

HasOpening(s) == Present(s) # {}

FirstListed(s) ==
    Markers[CHOOSE k \in Present(s) : \A j \in Present(s) : k <= j]

\* the first closing fence at or after offset from, when there is one
FenceFrom(s, from) == {q \in from..Len(s) : Occurs(Fence, s, q)}
FirstFenceFrom(s, from) ==
    CHOOSE q \in FenceFrom(s, from) : \A j \in FenceFrom(s, from) : q <= j

NoOuterWhitespace(u) ==
    u = <<>> \/ (u[1] \notin Whitespace /\ u[Len(u)] \notin Whitespace)

\* u is t without its leading and trailing whitespace
IsTrimOf(u, t) ==
    /\ NoOuterWhitespace(u)
    /\ \E a \in 0..Len(t) :
          /\ a + Len(u) <= Len(t)
          /\ \A i \in 1..Len(u) : t[a + i] = u[i]
          /\ \A i \in 1..a : t[i] \in Whitespace
          /\ \A i \in (a + Len(u) + 1)..Len(t) : t[i] \in Whitespace

Returned == calls >= 1
Destination == fs[file_name]
Holds(u) == [exists |-> TRUE, content |-> u]
OpenEnd == start_index + l1

----------------------------------------------------------------------------
\* C1: when an opening marker is found and a closing fence lies at or after
\* its end, the call returns the text between the end of the opening marker
\* and the first such fence, trimmed, and the destination file holds the same
\* string; later fences are ignored.
C1_FencedContent ==
    (Returned /\ start_index # -1 /\ FenceFrom(script_content, OpenEnd) # {}) =>
        LET q == FirstFenceFrom(script_content, OpenEnd)
        IN  /\ IsTrimOf(result, SubSeq(script_content, OpenEnd + 1, q))
            /\ Destination = Holds(result)

C1_Witness ==
    /\ Returned /\ start_index # -1
    /\ FenceFrom(script_content, OpenEnd) # {}
    /\ result # <<>>
    /\ Len(result) < FirstFenceFrom(script_content, OpenEnd) - OpenEnd

\* C2: a text holding none of the seven opening markers makes the call return
\* the diagnostic sentence and leave the file system as it was.
C2_NoMarkerNoWrite ==
    (Returned /\ ~HasOpening(script_content)) =>
        /\ result = ErrorMessage
        /\ writes = 0
        /\ fs = fsBefore

C2_Witness ==
    /\ Returned /\ ~HasOpening(script_content)
    /\ script_content # <<>>
    /\ result = ErrorMessage
    /\ Destination = OldFile

\* C3: the opening marker is the first of the list whose text occurs in the
\* text; start_index is the offset of its first occurrence and l1 its length,
\* also when a marker later in the list occurs at a smaller offset.
C3_ListOrder ==
    (Returned /\ HasOpening(script_content)) =>
        /\ start_index = FirstOffset(FirstListed(script_content), script_content)
        /\ l1 = Len(FirstListed(script_content))

C3_Witness ==
    /\ Returned /\ HasOpening(script_content)
    /\ \E k \in Present(script_content) :
          FirstOffset(Markers[k], script_content) < start_index

\* the smallest offset at which any opening marker occurs
LeftmostOffset(s) ==
    CHOOSE i \in 0..Len(s) :
        /\ \E k \in Present(s) : FirstOffset(Markers[k], s) = i
        /\ \A k \in Present(s) : i <= FirstOffset(Markers[k], s)

LeftmostMarker(s) ==
    Markers[CHOOSE k \in Present(s) :
               /\ FirstOffset(Markers[k], s) = LeftmostOffset(s)
               /\ \A j \in Present(s) :
                     FirstOffset(Markers[j], s) = LeftmostOffset(s) => k <= j]

\* C4 as stated: with more than one marker in the text, the marker starting at
\* the smallest offset is chosen, list order deciding only between markers at
\* one offset.
C4_LeftmostWins ==
    (Returned /\ Cardinality(Present(script_content)) > 1) =>
        /\ start_index = LeftmostOffset(script_content)
        /\ l1 = Len(LeftmostMarker(script_content))

\* the text the call skipped as its opening marker
ChosenMarker == SubSeq(script_content, start_index + 1, start_index + l1)

\* C4 as amended: with more than one marker in the text, the chosen marker is
\* the one earliest in the list, whatever the offsets; the offset decides only
\* between occurrences of that marker.
C4_ListOrderWins ==
    (Returned /\ Cardinality(Present(script_content)) > 1) =>
        \E k \in Present(script_content) :
            /\ ChosenMarker = Markers[k]
            /\ \A j \in Present(script_content) : k <= j
            /\ \A i \in 0..(start_index - 1) : ~Occurs(Markers[k], script_content, i)

C4_Witness ==
    /\ Returned
    /\ OccursIn(MarkerAction, script_content)
    /\ OccursIn(MarkerPython, script_content)
    /\ FirstOffset(MarkerAction, script_content)
          < FirstOffset(MarkerPython, script_content)
    /\ ChosenMarker = MarkerPython

\* C5: when an opening marker is found and no closing fence follows it, the
\* call returns and writes the whole remainder of the text after the marker,
\* trimmed.
C5_RemainderToEnd ==
    (Returned /\ start_index # -1 /\ FenceFrom(script_content, OpenEnd) = {}) =>
        /\ IsTrimOf(result, SubSeq(script_content, OpenEnd + 1, Len(script_content)))
        /\ Destination = Holds(result)

\* C6: the call fails exactly when no opening marker occurs; with an opening
\* marker it writes the destination file whether or not a closing fence exists.
C6_FailureIffNoOpening ==
    Returned =>
        IF HasOpening(script_content)
        THEN writes = 1 /\ result # ErrorMessage /\ Destination = Holds(result)
        ELSE writes = 0 /\ result = ErrorMessage

C6_Witness ==
    /\ Returned /\ HasOpening(script_content)
    /\ FenceFrom(script_content, OpenEnd) = {}
    /\ writes = 1
    /\ result # <<>>

\* C7: a successful call writes once, to the destination only; afterwards the
\* destination holds the returned string, which has no whitespace at its ends.
C7_OneWriteTrimmed ==
    (Returned /\ result # ErrorMessage) =>
        /\ writes = 1
        /\ \A p \in Paths \ {file_name} : fs[p] = fsBefore[p]
        /\ Destination = Holds(result)
        /\ NoOuterWhitespace(result)

C7_Witness ==
    /\ Returned /\ result # ErrorMessage
    /\ result # <<>>
    /\ Len(result) < end_index - OpenEnd
    /\ Destination = Holds(result)
    /\ fsBefore[file_name] = Absent

\* C8: a second call with the same text and destination returns what the first
\* returned and leaves the file as the first left it.
C8_Idempotent ==
    calls >= 2 => (result = prevResult /\ fs = fsBefore)

C8_Witness ==
    /\ calls >= 2
    /\ writes = 1
    /\ result # <<>>
    /\ Destination = Holds(result)

\* C10: the content a successful call returns and writes never holds three
\* backticks in a row.
C10_NoFenceInContent ==
    (Returned /\ result # ErrorMessage) =>
        /\ ~OccursIn(Fence, result)
        /\ ~OccursIn(Fence, Destination.content)

C10_Witness ==
    /\ Returned /\ result # ErrorMessage
    /\ result # <<>>
    /\ FenceFrom(script_content, end_index + 1) # {}

\* both concurrent calls succeeded and have returned
BothWrote ==
    \A t \in Threads : tpc[t] = "done" /\ tresult[t] # ErrorMessage

LastWriter == log[Len(log)][1]
OtherThan(t) == CHOOSE o \in Threads : o # t
When(t, what) == CHOOSE i \in DOMAIN log : log[i] = <<t, what>>

\* C9 as stated: once two concurrent successful calls have finished, the
\* destination holds exactly the content of the call that wrote last.
C9_LastWriterWins ==
    BothWrote => Destination = Holds(tresult[LastWriter])

\* C9 as amended: the destination begins with the content of the call that
\* wrote last; after it comes what the other call's content has beyond that
\* length when the other call wrote after the last writer had opened the
\* file, and nothing otherwise.
C9_LastWriterPrefix ==
    BothWrote =>
        LET w == LastWriter
            o == OtherThan(w)
            rest == IF When(o, "write") > When(w, "open")
                    THEN SubSeq(tresult[o], Len(tresult[w]) + 1, Len(tresult[o]))
                    ELSE <<>>
        IN  Destination = Holds(tresult[w] \o rest)

C9_Witness ==
    /\ BothWrote
    /\ Destination.content # tresult[LastWriter]
    /\ Destination.content # tresult[OtherThan(LastWriter)]
    /\ tresult[LastWriter] # <<>>

====
